---- MODULE Spec2Model ----
(***************************************************************************)
(* A model of src/bin/file_search.rs: the interactive file search.         *)
(*                                                                         *)
(* Two specifications share the module.                                    *)
(*   SpecSearch  search_files_include as a concurrent computation: the     *)
(*               rayon workers interleave one file visit at a time over a  *)
(*               fixed file tree; the inputs (query, roots, max_results)   *)
(*               are drawn in the initial state and the search is run      *)
(*               twice on the unchanged tree.                              *)
(*   Spec        the App of run_app: the tick/event loop, the key          *)
(*               handlers, the background thread and its channel.          *)
(*                                                                         *)
(* Text (String, PathBuf) is a sequence of one-character strings, so that  *)
(* to_lowercase, contains, trim, sort and dedup are computed and not       *)
(* assumed.                                                                *)
(***************************************************************************)
EXTENDS Integers, Sequences, FiniteSets, TLC

(***************************************************************************)
(* Bounds of the model.                                                    *)
(***************************************************************************)
\* search_files_include is called with max_results in 0..MaxCap (SpecSearch)
MaxCap == 2
\* the longest list of roots handed to search_files_include (SpecSearch)
MaxRoots == 2
\* the longest text the user types into the query or the root box (Spec)
MaxText == 1
\* channel identities available to start_search (Spec)
MaxThreads == 2

(***************************************************************************)
(* Program constants.                                                      *)
(***************************************************************************)
MAX_RESULTS == 10000
\* SPINNER.len()
SPINNER_LEN == 8

(***************************************************************************)
(* Characters and text.                                                    *)
(***************************************************************************)
\* the byte value of a character: String's Ord compares bytes
Code(c) ==
    CASE c = " " -> 32
      [] c = "/" -> 47
      [] c = "Q" -> 81
      [] c = "b" -> 98
      [] c = "d" -> 100
      [] c = "e" -> 101
      [] c = "l" -> 108
      [] c = "m" -> 109
      [] c = "q" -> 113
      [] c = "s" -> 115
      [] c = "x" -> 120

LowerChar(c) == IF c = "Q" THEN "q" ELSE c

\* str::to_lowercase
ToLowercase(s) == [i \in 1..Len(s) |-> LowerChar(s[i])]

\* str::contains(&str): some window of hay equals needle
Contains(hay, needle) ==
    \E i \in 0..(Len(hay) - Len(needle)) :
        SubSeq(hay, i + 1, i + Len(needle)) = needle

\* the comparison of String: lexicographic by bytes
LexLess(a, b) ==
    \E i \in 1..(Len(a) + 1) :
        /\ i <= Len(b)
        /\ \A j \in 1..(i - 1) : a[j] = b[j]
        /\ (i = Len(a) + 1 \/ Code(a[i]) < Code(b[i]))

RECURSIVE TrimStart(_)
TrimStart(s) ==
    IF s # <<>> /\ Head(s) = " " THEN TrimStart(Tail(s)) ELSE s

RECURSIVE TrimEnd(_)
TrimEnd(s) ==
    IF s # <<>> /\ s[Len(s)] = " " THEN TrimEnd(SubSeq(s, 1, Len(s) - 1)) ELSE s

\* str::trim
Trim(s) == TrimEnd(TrimStart(s))

RECURSIVE Insert(_, _)
Insert(x, sorted) ==
    IF sorted = <<>> THEN <<x>>
    ELSE IF LexLess(Head(sorted), x) THEN <<Head(sorted)>> \o Insert(x, Tail(sorted))
    ELSE <<x>> \o sorted

SortIdentity(v) == v

\* Vec<String>::sort_unstable: the ascending permutation of v
RECURSIVE SortUnstable(_)
SortUnstable(v) ==
    IF v = <<>> THEN <<>> ELSE Insert(Head(v), SortUnstable(Tail(v)))

DedupIdentity(v) == v

\* Vec<String>::dedup: drops each element equal to the one before it
RECURSIVE Dedup(_)
Dedup(v) ==
    IF Len(v) <= 1 THEN v
    ELSE IF v[1] = v[2] THEN Dedup(Tail(v))
    ELSE <<v[1]>> \o Dedup(Tail(v))

(***************************************************************************)
(* The file tree the program runs on.  It is not mutated during a search.  *)
(*                                                                         *)
(*   /            the current directory as well                            *)
(*   |- d/                                                                 *)
(*   |   |- s/                                                             *)
(*   |   |   `- q          regular file                                    *)
(*   |   |- Q              regular file                                    *)
(*   |   `- b              regular file                                    *)
(*   |- m/                                                                 *)
(*   |   |- l -> /d/s      symbolic link to a directory                    *)
(*   |   |- q -> /d/b      symbolic link to a regular file                 *)
(*   |   `- z              entry whose read fails: the listing yields Err  *)
(*   `- e/                                                                 *)
(*       |- o/             empty directory                                 *)
(*       `- u/             directory whose read_dir fails                  *)
(*           `- q          regular file                                    *)
(*                                                                         *)
(* A node is named by its absolute path; list is the order in which       *)
(* read_dir yields the entries of a directory.                             *)
(***************************************************************************)
NoNode == "none"

Nodes == {"/", "d", "d/s", "d/s/q", "d/Q", "d/b", "m", "m/l", "m/q", "m/z", "e",
          "e/o", "e/u", "e/u/q"}

FS ==
    [n \in Nodes |->
        CASE n = "/"     -> [name |-> <<"/">>, kind |-> "dir",     list |-> <<"d", "m", "e">>,       target |-> NoNode]
          [] n = "d"     -> [name |-> <<"d">>, kind |-> "dir",     list |-> <<"d/s", "d/Q", "d/b">>, target |-> NoNode]
          [] n = "d/s"   -> [name |-> <<"s">>, kind |-> "dir",     list |-> <<"d/s/q">>,             target |-> NoNode]
          [] n = "d/s/q" -> [name |-> <<"q">>, kind |-> "file",    list |-> <<>>,                    target |-> NoNode]
          [] n = "d/Q"   -> [name |-> <<"Q">>, kind |-> "file",    list |-> <<>>,                    target |-> NoNode]
          [] n = "d/b"   -> [name |-> <<"b">>, kind |-> "file",    list |-> <<>>,                    target |-> NoNode]
          [] n = "m"     -> [name |-> <<"m">>, kind |-> "dir",     list |-> <<"m/l", "m/q", "m/z">>, target |-> NoNode]
          [] n = "m/l"   -> [name |-> <<"l">>, kind |-> "symlink", list |-> <<>>,                    target |-> "d/s"]
          [] n = "m/q"   -> [name |-> <<"q">>, kind |-> "symlink", list |-> <<>>,                    target |-> "d/b"]
          [] n = "m/z"   -> [name |-> <<"z">>, kind |-> "err",     list |-> <<>>,                    target |-> NoNode]
          [] n = "e"     -> [name |-> <<"e">>, kind |-> "dir",     list |-> <<"e/o", "e/u">>,        target |-> NoNode]
          [] n = "e/o"   -> [name |-> <<"o">>, kind |-> "dir",     list |-> <<>>,                    target |-> NoNode]
          [] n = "e/u"   -> [name |-> <<"u">>, kind |-> "dir",     list |-> <<"e/u/q">>,             target |-> NoNode]
          [] n = "e/u/q" -> [name |-> <<"q">>, kind |-> "file",    list |-> <<>>,                    target |-> NoNode]]

\* the directories whose read_dir returns Err
Unreadable == {"e/u"}

RootNode == "/"

\* the node a symbolic link leads to, through any chain of links
RECURSIVE Follow(_)
Follow(n) ==
    IF n = NoNode THEN NoNode
    ELSE IF FS[n].kind = "symlink" THEN Follow(FS[n].target)
    ELSE n

\* the components of a path text, split at "/", empty components dropped
RECURSIVE Components(_, _)
Components(p, cur) ==
    IF p = <<>> THEN (IF cur = <<>> THEN <<>> ELSE <<cur>>)
    ELSE IF Head(p) = "/"
         THEN (IF cur = <<>> THEN <<>> ELSE <<cur>>) \o Components(Tail(p), <<>>)
         ELSE Components(Tail(p), Append(cur, Head(p)))

ChildNamed(n, name) ==
    IF \E i \in 1..Len(FS[n].list) : FS[FS[n].list[i]].name = name
    THEN FS[n].list[CHOOSE i \in 1..Len(FS[n].list) : FS[FS[n].list[i]].name = name]
    ELSE NoNode

\* path resolution from node n: a link in the middle of a path is followed
RECURSIVE Walk(_, _)
Walk(n, comps) ==
    IF n = NoNode THEN NoNode
    ELSE IF comps = <<>> THEN n
    ELSE LET dir == Follow(n) IN
         IF dir = NoNode \/ FS[dir].kind # "dir" THEN NoNode
         ELSE Walk(ChildNamed(dir, Head(comps)), Tail(comps))

\* symlink_metadata: the node a path names, a final link not followed
Lstat(p) == IF p = <<>> THEN NoNode ELSE Walk(RootNode, Components(p, <<>>))

\* metadata: the node a path names, a final link followed
Stat(p) == Follow(Lstat(p))

\* Path::is_file (std: follows symbolic links)
IsFile(p) == Stat(p) # NoNode /\ FS[Stat(p)].kind = "file"

\* Path::is_dir (std: follows symbolic links)
IsDir(p) == Stat(p) # NoNode /\ FS[Stat(p)].kind = "dir"

\* Path::join with one component
Join(p, name) == IF p[Len(p)] = "/" THEN p \o name ELSE p \o <<"/">> \o name

\* the listing yields Ok for the entry c
Yielded(c) == FS[c].kind # "err"

\* the entries a listing of directory node dir delivers once its errors are
\* dropped: none when read_dir fails, else the entries read without error
Listing(dir) == IF dir \in Unreadable THEN <<>> ELSE SelectSeq(FS[dir].list, Yielded)

\* if let Ok(entries) = fs::read_dir(p), entries.flatten() mapped to
\* entry.path(), in listing order
ReadDir(p) ==
    LET ents == Listing(Stat(p)) IN [i \in 1..Len(ents) |-> Join(p, FS[ents[i]].name)]

\* the regular files below directory node dir, depth first in listing order,
\* each under the path text it is reached by; a link met below the walk's
\* root is reported as a link (follow_links(false)) and is no file; the
\* errors of a listing are dropped (filter_map(Result::ok))
RECURSIVE Descend(_, _)
RECURSIVE DescendList(_, _)
Descend(p, dir) == DescendList(p, Listing(dir))

DescendList(p, list) ==
    IF list = <<>> THEN <<>>
    ELSE LET c == Head(list)
             cp == Join(p, FS[c].name)
             here == CASE FS[c].kind = "file" -> <<cp>>
                       [] FS[c].kind = "dir" -> Descend(cp, c)
                       [] OTHER -> <<>>
         IN here \o DescendList(p, Tail(list))

\* WalkDir::new(p).follow_links(false).into_iter().filter_map(Result::ok)
\*   .filter(|entry| entry.file_type().is_file()): the paths of the file
\* entries.  walkdir always follows a link given as the walk's root for the
\* purpose of traversal; the root entry itself is then a link, not a file.
WalkDir(p) ==
    LET n == Lstat(p) IN
    IF n = NoNode THEN <<>>
    ELSE IF FS[n].kind = "file" THEN <<p>>
    ELSE IF Follow(n) # NoNode /\ FS[Follow(n)].kind = "dir" THEN Descend(p, Follow(n))
    ELSE <<>>

NoFallback(root) ==
    IF IsFile(root) THEN <<root>>
    ELSE IF ~IsDir(root) THEN <<>>
    ELSE ReadDir(root)

\* fn root_work_items(root: &Path) -> Vec<PathBuf>
root_work_items(root) ==
    IF IsFile(root) THEN <<root>>
    ELSE IF ~IsDir(root) THEN <<>>
    ELSE LET items == ReadDir(root) IN
         IF items = <<>> THEN <<root>> ELSE items

RootsAsWorkItems(roots) == roots

\* roots.iter().flat_map(|r| root_work_items(r)).collect()
RECURSIVE FlatMapWorkItems(_)
FlatMapWorkItems(roots) ==
    IF roots = <<>> THEN <<>>
    ELSE root_work_items(Head(roots)) \o FlatMapWorkItems(Tail(roots))

\* the files one work item visits, in the order its closure visits them:
\* the item itself when item.is_file(), else the file entries of its walk
ItemVisits(item) == IF IsFile(item) THEN <<item>> ELSE WalkDir(item)

\* s.to_lowercase().contains(&query_lower)
IsMatch(s, query_lower) == Contains(ToLowercase(s), query_lower)

KeepAlways(prev, max_results) == TRUE

\* if prev < max_results, with prev the value hits.fetch_add returned
Keep(prev, max_results) == prev < max_results

(***************************************************************************)
(* search_files_include.  Its state while the workers run is a record:     *)
(*   query_lower, max_results   the arguments                              *)
(*   work_items                 the items handed to par_bridge             *)
(*   visits[w]                  the files item w visits, in order (the     *)
(*                              tree does not change during the search)    *)
(*   pos[w]                     how many files item w has visited          *)
(*   returned[w]                item w's closure has returned              *)
(*   frag[w]                    the Vec item w's closure is building       *)
(*   collected                  the Vec the parallel collect builds        *)
(*   scanned, hits              the two AtomicUsize                        *)
(* One step of a worker is one file visit: scanned.fetch_add, the match    *)
(* test and hits.fetch_add.  No step reads scanned before the workers have *)
(* joined, so the increment of scanned commutes with every step of the     *)
(* other workers and is taken together with the fetch_add on hits that     *)
(* follows it.  The closure's return is taken with its last visit; the     *)
(* collect appends the fragments in the order the closures return.         *)
(***************************************************************************)
EngineStart(query, roots, max_results) ==
    LET items == FlatMapWorkItems(roots) IN
    [query |-> query,
     roots |-> roots,
     query_lower |-> ToLowercase(query),
     max_results |-> max_results,
     work_items |-> items,
     visits |-> [w \in 1..Len(items) |-> ItemVisits(items[w])],
     pos |-> [w \in 1..Len(items) |-> 0],
     returned |-> [w \in 1..Len(items) |-> FALSE],
     frag |-> [w \in 1..Len(items) |-> <<>>],
     collected |-> <<>>,
     scanned |-> 0,
     hits |-> 0,
     done |-> FALSE]

\* the work items whose closure has not returned
Pending(es) == {w \in 1..Len(es.work_items) : ~es.returned[w]}

\* the closure of flat_map_iter on item w, advanced by one file visit
ItemStep(es, w) ==
    LET visits == es.visits[w] IN
    IF es.pos[w] >= Len(visits)
    THEN [es EXCEPT !.returned[w] = TRUE,
                    !.collected = @ \o es.frag[w]]
    ELSE LET s == visits[es.pos[w] + 1]
             matched == IsMatch(s, es.query_lower)
             prev == es.hits
             frag == IF matched /\ Keep(prev, es.max_results)
                     THEN Append(es.frag[w], s) ELSE es.frag[w]
             last == es.pos[w] + 1 = Len(visits)
         IN [es EXCEPT !.scanned = @ + 1,
                       !.hits = IF matched THEN @ + 1 ELSE @,
                       !.pos[w] = @ + 1,
                       !.frag[w] = frag,
                       !.returned[w] = last,
                       !.collected = IF last THEN @ \o frag ELSE @]

\* matched.sort_unstable(); matched.dedup(); SearchOutput { scanned, matched }
Aggregate(es) ==
    [scanned |-> es.scanned, matched |-> Dedup(SortUnstable(es.collected))]

\* every SearchOutput a call can return, over all schedules of the workers
RECURSIVE Outcomes(_)
Outcomes(es) ==
    IF Pending(es) = {} THEN {Aggregate(es)}
    ELSE UNION {Outcomes(ItemStep(es, w)) : w \in Pending(es)}

\* search_files_include(query, roots, max_results): the set of its results
search_files_include(query, roots, max_results) ==
    Outcomes(EngineStart(query, roots, max_results))

(***************************************************************************)
(* State.                                                                  *)
(***************************************************************************)
VARIABLES
    query,          \* App.query
    root,           \* App.root
    focus,          \* App.focus
    status,         \* App.status
    results,        \* App.results
    selected,       \* App.results_state.selected(): <<>> is None, <<i>> is Some(i)
    search_rx,      \* App.search_rx: the receiver and the channel behind it
    searching,      \* App.searching
    spinner_idx,    \* App.spinner_idx
    started_at,     \* App.started_at: "None" or "Some" (the Instant is not modelled)
    threads,        \* the background threads that have not finished their closure
    pc,             \* where run_app's loop stands: "tick", "poll" or "exit"
    eng,            \* SpecSearch: the running call of search_files_include
    outs            \* SpecSearch: the SearchOutput of each finished run

appVars == <<query, root, focus, status, results, selected, search_rx, searching,
             spinner_idx, started_at, threads, pc>>

searchVars == <<eng, outs>>

vars == <<appVars, searchVars>>

(***************************************************************************)
(* The App.                                                                *)
(***************************************************************************)
\* the status text, by the message it carries; a "done" status also carries
\* results.len(), output.scanned and base_scope (the elapsed time is left out)
Status(kind) == [kind |-> kind, n |-> 0, scanned |-> 0, scope |-> <<>>]

DoneStatus(n, scanned, scope) ==
    [kind |-> "done", n |-> n, scanned |-> scanned, scope |-> scope]

\* Option::None of App.search_rx
NoRx == [id |-> 0, buf |-> <<>>, tx |-> FALSE]

\* mpsc::channel(): an empty channel whose sender is alive
NewRx(id) == [id |-> id, buf |-> <<>>, tx |-> TRUE]

\* the channel identities not held by a thread or by App.search_rx
FreeIds == {i \in 1..MaxThreads : i # search_rx.id /\ \A t \in threads : t.ch # i}

\* impl Default for App
AppDefault ==
    /\ query = <<>>
    /\ root = <<>>
    /\ focus = "Query"
    /\ status = Status("hint")
    /\ results = <<>>
    /\ selected = <<>>
    /\ search_rx = NoRx
    /\ searching = FALSE
    /\ spinner_idx = 0
    /\ started_at = "None"

\* fn all_computer_roots(), the cfg(not(windows)) build
all_computer_roots == << <<"/">> >>

NeverRejects == FALSE

\* if self.searching, the test start_search opens with
start_search_rejects == searching

KeepResultsOnEmptyQuery == results

\* self.results.clear() of the empty-query branch
results_after_empty_query == <<>>

ClearResultsAtStart == <<>>

\* the branch of start_search that spawns the thread leaves self.results alone
results_at_start == results

KeepSpinnerAtStart == spinner_idx

\* self.spinner_idx = 0 of start_search
spinner_idx_at_start == 0

\* fn start_search(&mut self)
start_search ==
    IF start_search_rejects
    THEN /\ status' = Status("busy")
         /\ UNCHANGED <<results, selected, search_rx, searching, spinner_idx,
                        started_at, threads>>
    ELSE LET q == Trim(query) IN
         IF q = <<>>
         THEN /\ status' = Status("empty_query")
              /\ results' = results_after_empty_query
              /\ selected' = <<>>
              /\ UNCHANGED <<search_rx, searching, spinner_idx, started_at,
                             threads>>
         ELSE LET search_root == Trim(root)
                  roots == IF search_root = <<>> THEN all_computer_roots
                           ELSE <<search_root>>
              IN
              IF roots = <<>>
              THEN /\ status' = Status("no_root")
                   /\ results' = <<>>
                   /\ selected' = <<>>
                   /\ UNCHANGED <<search_rx, searching, spinner_idx, started_at,
                                  threads>>
              ELSE /\ FreeIds # {}
                   /\ LET id == CHOOSE i \in FreeIds : \A j \in FreeIds : i <= j
                          \* <<"*">> stands for the text "toàn bộ computer"
                          base_scope == IF search_root = <<>> THEN <<"*">>
                                        ELSE search_root
                      IN /\ threads' = threads \cup
                               {[ch |-> id, query |-> q, roots |-> roots,
                                 base_scope |-> base_scope]}
                         /\ search_rx' = NewRx(id)
                   /\ searching' = TRUE
                   /\ spinner_idx' = spinner_idx_at_start
                   /\ started_at' = "Some"
                   /\ status' = Status("started")
                   /\ results' = results_at_start
                   /\ UNCHANGED selected

\* rx.try_recv()
try_recv ==
    IF search_rx.buf # <<>> THEN "Ok"
    ELSE IF search_rx.tx THEN "Empty"
    ELSE "Disconnected"

KeepStartedAtOnDisconnect == started_at

\* self.started_at = None of the Disconnected arm of tick
started_at_after_disconnect == "None"

StaySearchingOnDisconnect == TRUE

\* self.searching = false of the Disconnected arm of tick
searching_after_disconnect == FALSE

ClearResultsOnDisconnect == <<>>

\* the Disconnected arm of tick leaves self.results alone
results_after_disconnect == results

KeepRxAfterRecv == search_rx

\* self.search_rx = None of the Ok arm of tick
search_rx_after_recv == NoRx

\* fn tick(&mut self)
tick ==
    IF ~searching
    THEN UNCHANGED <<status, results, selected, search_rx, searching, spinner_idx,
                     started_at>>
    ELSE /\ spinner_idx' = (spinner_idx + 1) % SPINNER_LEN
         /\ IF search_rx = NoRx
            THEN UNCHANGED <<status, results, selected, search_rx, searching,
                             started_at>>
            ELSE CASE try_recv = "Ok" ->
                      LET msg == Head(search_rx.buf) IN
                      /\ results' = msg.output.matched
                      /\ selected' = IF results' = <<>> THEN <<>> ELSE <<0>>
                      /\ status' = DoneStatus(Len(results'), msg.output.scanned,
                                              msg.base_scope)
                      /\ searching' = FALSE
                      /\ search_rx' = search_rx_after_recv
                      /\ started_at' = "None"
                   [] try_recv = "Empty" ->
                      UNCHANGED <<status, results, selected, search_rx, searching,
                                  started_at>>
                   [] try_recv = "Disconnected" ->
                      /\ searching' = searching_after_disconnect
                      /\ search_rx' = NoRx
                      /\ started_at' = started_at_after_disconnect
                      /\ status' = Status("disconnected")
                      /\ results' = results_after_disconnect
                      /\ UNCHANGED selected

SelectNextUnclamped ==
    IF results = <<>>
    THEN selected' = <<>>
    ELSE selected' = <<(IF selected = <<>> THEN 0 ELSE selected[1]) + 1>>

\* fn select_next(&mut self)
select_next ==
    IF results = <<>>
    THEN selected' = <<>>
    ELSE LET i == IF selected = <<>> THEN 0 ELSE selected[1]
             next == IF i + 1 >= Len(results) THEN i ELSE i + 1
         IN selected' = <<next>>

\* fn select_prev(&mut self)
select_prev ==
    IF results = <<>>
    THEN selected' = <<>>
    ELSE LET i == IF selected = <<>> THEN 0 ELSE selected[1]
             prev == IF i = 0 THEN 0 ELSE i - 1
         IN selected' = <<prev>>

\* fn open_in_file_explorer(path): Err when the path does not exist; the
\* spawn of the platform command succeeds or fails
open_in_file_explorer(path) ==
    IF Stat(path) = NoNode THEN {"open_failed"} ELSE {"opened", "open_failed"}

\* fn open_selected_in_explorer(&mut self)
open_selected_in_explorer ==
    IF searching THEN status' = Status("cannot_open_while_searching")
    ELSE IF selected = <<>> THEN status' = Status("none_selected")
    ELSE IF selected[1] >= Len(results) THEN status' = Status("invalid_selected")
    ELSE \E r \in open_in_file_explorer(results[selected[1] + 1]) :
             status' = Status(r)

(***************************************************************************)
(* run_app: each turn of the loop calls tick, draws, and waits up to 120   *)
(* ms for an event; a key press is dispatched on its code.                 *)
(***************************************************************************)
\* the characters a key press can type
Keys == {" ", "q"}

Init ==
    /\ AppDefault
    /\ threads = {}
    /\ pc = "tick"
    /\ eng = EngineStart(<<>>, <<>>, 0)
    /\ outs = <<>>

\* app.tick(); terminal.draw(..)
Tick ==
    /\ pc = "tick"
    /\ tick
    /\ pc' = "poll"
    /\ UNCHANGED <<query, root, focus, threads, searchVars>>

\* event::poll times out, or the event is no key press, or a key without arm
NoKey ==
    /\ pc = "poll"
    /\ pc' = "tick"
    /\ UNCHANGED <<query, root, focus, status, results, selected, search_rx,
                   searching, spinner_idx, started_at, threads,
                   searchVars>>

\* KeyCode::Esc => break: run_app returns, its App is dropped, main returns
\* and the process ends with its threads
KeyEsc ==
    /\ pc = "poll"
    /\ pc' = "exit"
    /\ query' = <<>>
    /\ root' = <<>>
    /\ focus' = "Query"
    /\ status' = Status("hint")
    /\ results' = <<>>
    /\ selected' = <<>>
    /\ search_rx' = NoRx
    /\ searching' = FALSE
    /\ spinner_idx' = 0
    /\ started_at' = "None"
    /\ threads' = {}
    /\ UNCHANGED searchVars

\* KeyCode::Tab
KeyTab ==
    /\ pc = "poll"
    /\ focus' = CASE focus = "Query" -> "Root"
                  [] focus = "Root" -> "Results"
                  [] focus = "Results" -> "Query"
    /\ pc' = "tick"
    /\ UNCHANGED <<query, root, status, results, selected, search_rx, searching,
                   spinner_idx, started_at, threads, searchVars>>

\* String::pop
Pop(s) == IF s = <<>> THEN s ELSE SubSeq(s, 1, Len(s) - 1)

\* KeyCode::Backspace
KeyBackspace ==
    /\ pc = "poll"
    /\ query' = IF focus = "Query" THEN Pop(query) ELSE query
    /\ root' = IF focus = "Root" THEN Pop(root) ELSE root
    /\ pc' = "tick"
    /\ UNCHANGED <<focus, status, results, selected, search_rx, searching,
                   spinner_idx, started_at, threads, searchVars>>

\* KeyCode::Char(c)
KeyChar(c) ==
    /\ pc = "poll"
    /\ focus = "Query" => Len(query) < MaxText
    /\ focus = "Root" => Len(root) < MaxText
    /\ query' = IF focus = "Query" THEN Append(query, c) ELSE query
    /\ root' = IF focus = "Root" THEN Append(root, c) ELSE root
    /\ pc' = "tick"
    /\ UNCHANGED <<focus, status, results, selected, search_rx, searching,
                   spinner_idx, started_at, threads, searchVars>>

\* KeyCode::Enter with the focus on Query or Root
KeyEnterSearch ==
    /\ pc = "poll"
    /\ focus \in {"Query", "Root"}
    /\ start_search
    /\ pc' = "tick"
    /\ UNCHANGED <<query, root, focus, searchVars>>

\* KeyCode::Enter with the focus on Results
KeyEnterOpen ==
    /\ pc = "poll"
    /\ focus = "Results"
    /\ open_selected_in_explorer
    /\ pc' = "tick"
    /\ UNCHANGED <<query, root, focus, results, selected, search_rx, searching,
                   spinner_idx, started_at, threads, searchVars>>

\* KeyCode::Up
KeyUp ==
    /\ pc = "poll"
    /\ IF focus = "Results" THEN select_prev ELSE UNCHANGED selected
    /\ pc' = "tick"
    /\ UNCHANGED <<query, root, focus, status, results, search_rx, searching,
                   spinner_idx, started_at, threads, searchVars>>

\* KeyCode::Down
KeyDown ==
    /\ pc = "poll"
    /\ IF focus = "Results" THEN select_next ELSE UNCHANGED selected
    /\ pc' = "tick"
    /\ UNCHANGED <<query, root, focus, status, results, search_rx, searching,
                   spinner_idx, started_at, threads, searchVars>>

LiveQuery(t) == Trim(query)

\* query_owned, which the closure of thread::spawn has moved into itself
query_owned(t) == t.query

\* the closure of thread::spawn runs to its end: search_files_include, then
\* tx.send((output, base_scope)), whose error is dropped; tx is dropped with
\* the closure
ThreadFinish(t) ==
    /\ pc # "exit"
    /\ t \in threads
    /\ \E output \in search_files_include(query_owned(t), t.roots, MAX_RESULTS) :
           search_rx' = IF search_rx.id = t.ch
                        THEN [search_rx EXCEPT
                                !.buf = Append(@, [output |-> output,
                                                   base_scope |-> t.base_scope]),
                                !.tx = FALSE]
                        ELSE search_rx
    /\ threads' = threads \ {t}
    /\ UNCHANGED <<query, root, focus, status, results, selected, searching,
                   spinner_idx, started_at, pc, searchVars>>

\* the thread panics before it sends: unwinding drops tx
ThreadPanic(t) ==
    /\ pc # "exit"
    /\ t \in threads
    /\ search_rx' = IF search_rx.id = t.ch THEN [search_rx EXCEPT !.tx = FALSE]
                    ELSE search_rx
    /\ threads' = threads \ {t}
    /\ UNCHANGED <<query, root, focus, status, results, selected, searching,
                   spinner_idx, started_at, pc, searchVars>>

Next ==
    \/ Tick
    \/ NoKey
    \/ KeyEsc
    \/ KeyTab
    \/ KeyBackspace
    \/ \E c \in Keys : KeyChar(c)
    \/ KeyEnterSearch
    \/ KeyEnterOpen
    \/ KeyUp
    \/ KeyDown
    \/ \E t \in threads : ThreadFinish(t)
    \/ \E t \in threads : ThreadPanic(t)

Spec == Init /\ [][Next]_vars

\* what one turn of the loop does after tick and draw: the poll returns
\* within 120 ms, with or without a key press
PollStep ==
    \/ NoKey
    \/ KeyEsc
    \/ KeyTab
    \/ KeyBackspace
    \/ \E c \in Keys : KeyChar(c)
    \/ KeyEnterSearch
    \/ KeyEnterOpen
    \/ KeyUp
    \/ KeyDown

\* the closure of a spawned thread comes to its end: the steps of Next that
\* take a thread away and leave the loop where it stands are the steps
\* ThreadFinish(t) and ThreadPanic(t), and they are enabled together
ThreadEnd == \E t \in threads : pc # "exit" /\ pc' = pc /\ threads' = threads \ {t}

\* the loop of run_app keeps turning: tick is called, the poll returns; and
\* a spawned thread's closure ends, the walk of a finite tree being finite
SpecLive ==
    /\ Init
    /\ [][Next]_vars
    /\ WF_vars(Tick)
    /\ WF_vars(PollStep)
    /\ WF_<<pc, threads>>(ThreadEnd)

(***************************************************************************)
(* SpecSearch: search_files_include run twice on the same inputs.          *)
(***************************************************************************)
Queries == {<<"Q">>, <<"d">>}

RootChoices == {<<"d">>, <<"d", "/", "s">>, <<"m">>, <<"x">>}

\* roots that are searched alone: a regular file, an empty directory and a
\* directory whose listing fails
LoneRoots == {<<"d", "/", "b">>, <<"e", "/", "o">>, <<"e", "/", "u">>}

RootLists ==
    UNION {[1..n -> RootChoices] : n \in 1..MaxRoots} \cup {<<r>> : r \in LoneRoots}

InitSearch ==
    /\ AppDefault
    /\ threads = {}
    /\ pc = "exit"
    /\ \E q \in Queries, r \in RootLists, m \in 0..MaxCap :
           eng = EngineStart(q, r, m)
    /\ outs = <<>>

\* one rayon worker visits the next file of work item w
WorkerVisit(w) ==
    /\ ~eng.done
    /\ w \in Pending(eng)
    /\ eng' = ItemStep(eng, w)
    /\ UNCHANGED <<outs, appVars>>

\* all closures have returned: sort, dedup, return the SearchOutput
Collect ==
    /\ ~eng.done
    /\ Pending(eng) = {}
    /\ outs' = Append(outs, Aggregate(eng))
    /\ eng' = [eng EXCEPT !.done = TRUE]
    /\ UNCHANGED appVars

\* the same search is called again
Rerun ==
    /\ eng.done
    /\ Len(outs) < 2
    /\ eng' = EngineStart(eng.query, eng.roots, eng.max_results)
    /\ UNCHANGED <<outs, appVars>>

NextSearch ==
    \/ \E w \in 1..Len(eng.work_items) : WorkerVisit(w)
    \/ Collect
    \/ Rerun

SpecSearch == InitSearch /\ [][NextSearch]_vars

(***************************************************************************)
(* What the claims speak of.                                               *)
(***************************************************************************)
\* the elements of a sequence
Range(v) == {v[i] : i \in 1..Len(v)}

\* the regular files of the tree below the path p, by path text: p itself
\* when it names a regular file, the files below it when it names a
\* directory; nothing is reached through a symbolic link
TreeFiles(p) ==
    LET n == Lstat(p) IN
    IF n = NoNode THEN {}
    ELSE IF FS[n].kind = "file" THEN {p}
    ELSE IF FS[n].kind = "dir" THEN Range(Descend(p, n))
    ELSE {}

\* the regular files below the roots of the running call
RootTreeFiles == UNION {TreeFiles(eng.roots[i]) : i \in 1..Len(eng.roots)}

\* those of them whose path matches the query, case-insensitively
MatchingTreeFiles == {p \in RootTreeFiles : IsMatch(p, ToLowercase(eng.query))}

\* every visit of the running call, as <<work item, position>>
AllVisits ==
    UNION {{<<w, i>> : i \in 1..Len(eng.visits[w])} : w \in 1..Len(eng.work_items)}

\* the visits whose path matches, counted once per visit
MatchingVisits == {v \in AllVisits : IsMatch(eng.visits[v[1]][v[2]], eng.query_lower)}

\* the distinct paths that match among the files the call visits
MatchingVisitedPaths == {eng.visits[v[1]][v[2]] : v \in MatchingVisits}

\* the number of regular files below the work items, item by item
RECURSIVE CountTreeFiles(_)
CountTreeFiles(items) ==
    IF items = <<>> THEN 0
    ELSE Cardinality(TreeFiles(Head(items))) + CountTreeFiles(Tail(items))

\* the roots start_search hands to the thread: the trimmed root text, or
\* every root of the computer when that text is empty
SearchRoots == IF Trim(root) = <<>> THEN all_computer_roots ELSE <<Trim(root)>>

\* the thread t searches a single root, a path that names nothing
OnlyRootMissing(t) == Len(t.roots) = 1 /\ Lstat(t.roots[1]) = NoNode

\* the SearchOutput of a search that visited nothing
EmptyOutput == [scanned |-> 0, matched |-> <<>>]

\* the regular files of the trees below the roots, as nodes of the tree
RootTreeNodes == {Lstat(f) : f \in RootTreeFiles}

\* the direct children of the directory the path r names that a listing can
\* read, as the paths below r
ReadableChildren(r) ==
    IF Stat(r) \in Unreadable THEN {}
    ELSE {Join(r, FS[c].name) : c \in {k \in Range(FS[Stat(r)].list) : FS[k].kind # "err"}}

\* the scope text start_search would hand to a thread in the current state
ScopeText == IF Trim(root) = <<>> THEN <<"*">> ELSE Trim(root)

StrictlyAscending(v) == \A i \in 1..(Len(v) - 1) : LexLess(v[i], v[i + 1])

(***************************************************************************)
(* C1: at most one background search thread is alive in every reachable    *)
(* state, and a start_search call made while searching is true spawns no   *)
(* thread, creates no channel and changes nothing but the status.          *)
(***************************************************************************)
C1_OneSession ==
    /\ [](Cardinality(threads) <= 1)
    /\ [][(KeyEnterSearch /\ searching) =>
            /\ threads' = threads
            /\ search_rx' = search_rx
            /\ results' = results
            /\ selected' = selected
            /\ started_at' = started_at
            /\ spinner_idx' = spinner_idx
            /\ searching' = searching
            /\ status' = Status("busy")]_vars

\* start_search was called during a search, whose thread is still running
C1_Witness ==
    searching /\ status.kind = "busy" /\ Cardinality(threads) = 1

(***************************************************************************)
(* C2: under every interleaving of the workers the matched list of         *)
(* search_files_include has at most max_results entries, and so has the    *)
(* list the workers have retained so far.                                  *)
(***************************************************************************)
C2_AtMostMaxResults ==
    /\ Len(eng.collected) <= eng.max_results
    /\ \A i \in 1..Len(outs) : Len(outs[i].matched) <= eng.max_results

\* a finished run in which more matches were counted than the cap allows
C2_Witness ==
    /\ Len(outs) >= 1
    /\ eng.done
    /\ eng.max_results > 0
    /\ eng.hits > eng.max_results
    /\ Len(outs[Len(outs)].matched) = eng.max_results

(***************************************************************************)
(* C3 as claimed: whenever the files the call visits hold more than        *)
(* max_results matching paths, matched has exactly max_results entries and *)
(* scanned is the number of files visited.                                 *)
(***************************************************************************)
C3_ExactlyMaxResults ==
    \A i \in 1..Len(outs) :
        Cardinality(MatchingVisitedPaths) > eng.max_results =>
            /\ Len(outs[i].matched) = eng.max_results
            /\ outs[i].scanned = Cardinality(AllVisits)

(***************************************************************************)
(* C4 as claimed: two runs of the same search on the unchanged tree return *)
(* the same matched list and the same scanned count.                       *)
(***************************************************************************)
C4_SameOutputTwice == Len(outs) = 2 => outs[1] = outs[2]

(***************************************************************************)
(* C4 amended: two runs return the same scanned count, and the same        *)
(* matched list whenever the matching visits do not exceed max_results.    *)
(***************************************************************************)
C4_SameOutputUnderCap ==
    Len(outs) = 2 =>
        /\ outs[1].scanned = outs[2].scanned
        /\ Cardinality(MatchingVisits) <= eng.max_results =>
               outs[1].matched = outs[2].matched

\* two finished runs below the cap whose matched list has several entries
C4_Witness ==
    /\ Len(outs) = 2
    /\ Cardinality(MatchingVisits) <= eng.max_results
    /\ Len(outs[2].matched) >= 2

(***************************************************************************)
(* C5 as claimed: every entry of matched is the path of a regular file of  *)
(* the trees below the roots, and its lower-cased text contains the        *)
(* lower-cased query.                                                      *)
(***************************************************************************)
C5_OnlyMatchingTreeFiles ==
    \A i \in 1..Len(outs) : \A p \in Range(outs[i].matched) :
        /\ p \in RootTreeFiles
        /\ Contains(ToLowercase(p), ToLowercase(eng.query))

(***************************************************************************)
(* C6 as claimed: when the matching files below the roots do not exceed    *)
(* max_results, matched is exactly those files, in ascending order.        *)
(***************************************************************************)
C6_AllMatchesBelowCap ==
    \A i \in 1..Len(outs) :
        Cardinality(MatchingTreeFiles) <= eng.max_results =>
            /\ Range(outs[i].matched) = MatchingTreeFiles
            /\ StrictlyAscending(outs[i].matched)

(***************************************************************************)
(* C7: the matched list is strictly ascending in the order of path text,   *)
(* so no path appears twice, also when the roots overlap.                  *)
(***************************************************************************)
C7_StrictlyAscending ==
    \A i \in 1..Len(outs) : StrictlyAscending(outs[i].matched)

\* a run over overlapping roots has just finished: its workers retained a
\* path twice and the output holds it once
C7_Witness ==
    /\ Len(outs) >= 1
    /\ eng.done
    /\ Len(outs[Len(outs)].matched) >= 1
    /\ Len(eng.collected) > Len(outs[Len(outs)].matched)

(***************************************************************************)
(* C8 as claimed: scanned is at least matched.len() and equals the number  *)
(* of regular files below the work items, symlinked subtrees excluded.     *)
(***************************************************************************)
C8_ScannedCountsTreeFiles ==
    \A i \in 1..Len(outs) :
        /\ outs[i].scanned >= Len(outs[i].matched)
        /\ outs[i].scanned = CountTreeFiles(eng.work_items)

(***************************************************************************)
(* C9 as claimed: start_search in Idle with a query that is empty after    *)
(* trimming starts no search, reports the empty query and leaves the       *)
(* visible results as they were.                                           *)
(***************************************************************************)
C9_EmptyQueryKeepsResults ==
    [][(KeyEnterSearch /\ ~searching /\ Trim(query) = <<>>) =>
            /\ searching' = FALSE
            /\ threads' = threads
            /\ search_rx' = search_rx
            /\ status' = Status("empty_query")
            /\ results' = results]_vars

(***************************************************************************)
(* C9 amended: start_search in Idle with a query that is empty after       *)
(* trimming starts no search and reports the empty query; it clears the    *)
(* visible results and the selection.                                      *)
(***************************************************************************)
C9_EmptyQueryClearsResults ==
    [][(KeyEnterSearch /\ ~searching /\ Trim(query) = <<>>) =>
            /\ searching' = FALSE
            /\ threads' = threads
            /\ search_rx' = search_rx
            /\ started_at' = started_at
            /\ status' = Status("empty_query")
            /\ results' = <<>>
            /\ selected' = <<>>]_vars

\* start_search has just rejected a query of blanks
C9_Witness ==
    /\ status.kind = "empty_query"
    /\ query # <<>>
    /\ Trim(query) = <<>>
    /\ ~searching
    /\ threads = {}
    /\ results = <<>>

(***************************************************************************)
(* C10: a tick that finds the sender dropped with nothing sent returns to  *)
(* Idle and reports the disconnection, and the visible results are what    *)
(* they were before the search started: no step that starts or continues   *)
(* a search, nor the disconnecting tick, changes them.                     *)
(***************************************************************************)
C10_DisconnectKeepsResults ==
    /\ [][(Tick /\ searching /\ try_recv = "Disconnected") =>
            /\ searching' = FALSE
            /\ search_rx' = NoRx
            /\ started_at' = "None"
            /\ status' = Status("disconnected")
            /\ results' = results]_vars
    /\ [][searching' => results' = results]_vars

\* a search failed by disconnection while earlier results were on display
C10_Witness ==
    /\ status.kind = "disconnected"
    /\ ~searching
    /\ search_rx = NoRx
    /\ results # <<>>

(***************************************************************************)
(* C11: the output of a search is handed off exactly once.  A channel      *)
(* never holds more than one value, and holds none unless a search is on;  *)
(* the tick that receives the value puts output.matched on display and     *)
(* clears searching, search_rx and started_at in that step; a tick outside *)
(* a search changes nothing, and the results on display change only by a   *)
(* receiving tick, by a start_search call or by leaving the program.       *)
(***************************************************************************)
C11_HandedOffOnce ==
    /\ [](Len(search_rx.buf) <= 1 /\ (~searching => search_rx = NoRx))
    /\ [][(Tick /\ searching /\ try_recv = "Ok") =>
            /\ results' = Head(search_rx.buf).output.matched
            /\ searching' = FALSE
            /\ search_rx' = NoRx
            /\ started_at' = "None"]_vars
    /\ [][(Tick /\ ~searching) =>
            UNCHANGED <<status, results, selected, search_rx, searching,
                        spinner_idx, started_at>>]_vars
    /\ [][results' # results =>
            \/ Tick /\ searching /\ try_recv = "Ok"
            \/ KeyEnterSearch /\ ~searching
            \/ KeyEsc]_vars

\* a tick has received the output of a search and put its paths on display
C11_Witness ==
    /\ status.kind = "done"
    /\ status.n >= 1
    /\ results # <<>>
    /\ ~searching
    /\ search_rx = NoRx
    /\ started_at = "None"
    /\ threads = {}

(***************************************************************************)
(* C12: a search never hangs.  When the thread comes to its end, with or   *)
(* without sending, and the loop keeps calling tick, every state in which  *)
(* searching is true is followed by one in which it is false, reached by   *)
(* the Ok or the Disconnected arm of tick or by leaving the program.       *)
(***************************************************************************)
C12_NeverHangs ==
    searching ~> (~searching /\ (status.kind \in {"done", "disconnected"}
                                  \/ pc = "exit"))

\* a tick has just ended a search whose thread came to its end
C12_Witness ==
    /\ pc = "poll"
    /\ ~searching
    /\ status.kind \in {"done", "disconnected"}
    /\ threads = {}
    /\ spinner_idx >= 2

C14_NoPartialResults ==
    /\ [][(KeyEnterSearch /\ ~searching /\ searching') => results' = results]_vars
    /\ [][(searching /\ ~(Tick /\ try_recv = "Ok") /\ ~KeyEsc) =>
            results' = results]_vars
    /\ [][(Tick /\ searching /\ try_recv = "Empty") =>
            /\ spinner_idx' = (spinner_idx + 1) % SPINNER_LEN
            /\ UNCHANGED <<query, root, focus, status, results, selected,
                           search_rx, searching, started_at, threads>>]_vars
    /\ [](pc = "tick" => ENABLED Tick)

\* a tick has found the channel empty, the thread still running, while the
\* results of an earlier search are on display
C14_Witness ==
    /\ pc = "poll"
    /\ searching
    /\ spinner_idx >= 1
    /\ search_rx.tx
    /\ search_rx.buf = <<>>
    /\ threads # {}
    /\ results # <<>>

(***************************************************************************)
(* C15: a search whose only root is a path that does not exist has no work *)
(* item and returns scanned = 0 and matched = [].  Its thread sends that   *)
(* output, and the tick that receives it ends the search with no result on *)
(* display and a status that reports 0 results of 0 files scanned.         *)
(***************************************************************************)
C15_MissingRootEmptyOutput ==
    /\ [](\A t \in threads : OnlyRootMissing(t) =>
            /\ root_work_items(t.roots[1]) = <<>>
            /\ FlatMapWorkItems(t.roots) = <<>>
            /\ search_files_include(t.query, t.roots, MAX_RESULTS) = {EmptyOutput})
    /\ [][\A t \in threads :
            (OnlyRootMissing(t) /\ threads' = threads \ {t}
                /\ search_rx'.buf # search_rx.buf) =>
                search_rx'.buf = <<[output |-> EmptyOutput,
                                    base_scope |-> t.roots[1]]>>]_vars
    /\ [][(Tick /\ searching /\ try_recv = "Ok"
                /\ Head(search_rx.buf).base_scope # <<"*">>
                /\ Lstat(Head(search_rx.buf).base_scope) = NoNode) =>
            /\ results' = <<>>
            /\ selected' = <<>>
            /\ status' = DoneStatus(0, 0, Head(search_rx.buf).base_scope)
            /\ ~searching']_vars

\* the search of a root that does not exist has been started, has completed
\* and has delivered its empty output
C15_Witness ==
    /\ ~searching
    /\ status.kind = "done"
    /\ status.scope # <<"*">>
    /\ Lstat(status.scope) = NoNode
    /\ status.n = 0
    /\ status.scanned = 0
    /\ results = <<>>

(***************************************************************************)
(* C16 as claimed: no symbolic link is followed.  Every file a worker has  *)
(* visited, and every file the output names, is a regular file of the      *)
(* trees below the roots: none is a file that only a symbolic link leads   *)
(* to, also when the link is a work item.                                  *)
(***************************************************************************)
C16_NoFileThroughSymlink ==
    /\ \A w \in 1..Len(eng.work_items) : \A i \in 1..eng.pos[w] :
           Stat(eng.visits[w][i]) \in RootTreeNodes
    /\ \A i \in 1..Len(outs) : \A p \in Range(outs[i].matched) :
           Stat(p) \in RootTreeNodes

(***************************************************************************)
(* C17: for every root of the call, root_work_items returns the root alone *)
(* when it is a regular file; one item for each direct child the listing   *)
(* can read when it is a directory with such a child; the root alone when  *)
(* it is a directory whose listing is empty or cannot be read; and nothing *)
(* when it is neither an existing file nor a directory.  The work items of *)
(* the call are these lists, root after root.  The roots and their work    *)
(* items do not change during a call, so this is stated of the call before *)
(* its first file visit.                                                   *)
(***************************************************************************)
C17_WorkItemsOfRoot ==
    (eng.scanned = 0 /\ ~eng.done) =>
    /\ \A i \in 1..Len(eng.roots) :
           LET r == eng.roots[i]
               items == root_work_items(r)
           IN /\ (Lstat(r) # NoNode /\ FS[Lstat(r)].kind = "file") => items = <<r>>
              /\ (IsDir(r) /\ ReadableChildren(r) # {}) =>
                     /\ Range(items) = ReadableChildren(r)
                     /\ Len(items) = Cardinality(ReadableChildren(r))
              /\ (IsDir(r) /\ ReadableChildren(r) = {}) => items = <<r>>
              /\ (~IsFile(r) /\ ~IsDir(r)) => items = <<>>
    /\ Range(eng.work_items) =
           UNION {Range(root_work_items(eng.roots[i])) : i \in 1..Len(eng.roots)}

\* the search of a directory whose listing cannot be read is under way with
\* the directory itself as its one work item, and finds nothing in it
C17_Witness ==
    /\ ~eng.done
    /\ eng.roots = << <<"e", "/", "u">> >>
    /\ Stat(eng.roots[1]) \in Unreadable
    /\ eng.work_items = eng.roots
    /\ eng.returned = <<TRUE>>
    /\ eng.scanned = 0

(***************************************************************************)
(* C18: in every reachable state the three fields of the session agree:    *)
(* searching is true exactly when search_rx holds a receiver, and exactly  *)
(* when started_at holds a timestamp.                                      *)
(***************************************************************************)
C18_SessionFieldsAgree ==
    /\ searching <=> search_rx # NoRx
    /\ searching <=> search_rx.id # 0
    /\ searching <=> started_at = "Some"

\* a search started while earlier results were on display has finished, and
\* its output waits in the channel for the next tick
C18_Witness ==
    /\ searching
    /\ started_at = "Some"
    /\ search_rx.buf # <<>>
    /\ threads = {}
    /\ results # <<>>
    /\ pc = "tick"

(***************************************************************************)
(* C19: a running search works on what start_search captured.  The thread  *)
(* is spawned with the trimmed query, the roots and the scope text of that *)
(* moment; no step changes what a thread holds, and typing or deleting in  *)
(* the text boxes touches neither the threads nor the channel; the thread  *)
(* sends the output of the search of its own query and roots, with its own *)
(* scope text; and the status of completion reports that scope text.       *)
(***************************************************************************)
C19_SearchUsesCapturedInput ==
    /\ [][(KeyEnterSearch /\ ~searching /\ searching') =>
            \A t \in threads' \ threads :
                /\ t.query = Trim(query)
                /\ t.roots = SearchRoots
                /\ t.base_scope = ScopeText]_vars
    /\ [][(searching /\ searching') => threads' \subseteq threads]_vars
    /\ [][(KeyBackspace \/ \E c \in Keys : KeyChar(c)) =>
            UNCHANGED <<threads, search_rx, searching, results, status>>]_vars
    /\ [][\A t \in threads :
            (threads' = threads \ {t} /\ search_rx'.buf # search_rx.buf) =>
                \E o \in search_files_include(t.query, t.roots, MAX_RESULTS) :
                    search_rx'.buf = <<[output |-> o, base_scope |-> t.base_scope]>>]_vars
    /\ [][(Tick /\ searching /\ try_recv = "Ok") =>
            /\ status'.scope = Head(search_rx.buf).base_scope
            /\ results' = Head(search_rx.buf).output.matched]_vars

\* a search has completed after both text boxes were edited while it ran:
\* its results match a query that is no longer in the box, and the status
\* names the scope it was started with, not the root text of now
C19_Witness ==
    /\ ~searching
    /\ status.kind = "done"
    /\ status.scope # ScopeText
    /\ results # <<>>
    /\ Trim(query) = <<>>

(***************************************************************************)
(* C20: in every reachable state the selection is None or an index into    *)
(* the results on display, so open_selected_in_explorer never reports an   *)
(* invalid selected item.                                                  *)
(***************************************************************************)
C20_SelectionInRange ==
    /\ selected = <<>> \/ (selected[1] >= 0 /\ selected[1] < Len(results))
    /\ status.kind # "invalid_selected"

\* the last of several results was selected with select_next and opened
C20_Witness ==
    /\ Len(results) >= 2
    /\ selected = <<Len(results) - 1>>
    /\ status.kind = "opened"
    /\ ~searching

====
